---------------------------- MODULE Spec2Model ----------------------------
(***************************************************************************)
(* Sheet settings of roryscot/gcs: the settings document                   *)
(* (model/gurps/sheet_settings.go) and the panel that edits it             *)
(* (ux/sheet_settings_dockable.go).                                        *)
(*                                                                         *)
(* A SheetSettings value is a record of its fields.  The four              *)
(* sub-documents (Page, BlockLayout, Attributes, BodyType) are Go          *)
(* pointers: here a field holds a reference into `heap`, or NULL.          *)
(***************************************************************************)
EXTENDS Integers, Sequences, FiniteSets, TLC

VARIABLES
    heap,       \* the sub-document objects: reference -> content, or FREE
    input,      \* the document an operation was given (a value, kept for comparison)
    sheet,      \* the document an operation produced or works on
    disk,       \* the content of the settings file: a JSON object, or NoFile
    stage,      \* which operation ran last
    global,     \* gurps.GlobalSettings().Sheet
    entity,     \* the SheetSettings of the entity of the open sheet
    panels,     \* the widgets of the two settings panels
    calls,      \* the SheetSettingsUpdated calls the last handler made
    arg,        \* the arguments of the last operation
    steps,      \* how many operations ran (in SpecNotify: dockables the loop passed)
    err,        \* the error the last operation returned, or NoError
    dockables   \* AllDockables(): the open dockables, in order

\* the state of the application: the two live documents and their panels
appVars == <<global, entity, panels, calls, arg, steps, dockables>>

vars ==
    <<heap, input, sheet, disk, stage, global, entity, panels, calls, arg, steps, err,
      dockables>>

----------------------------------------------------------------------------
(* Bounds of the model. *)

\* how many sub-document objects can be live at once
NumRefs == 14
\* how many of the eight skill-modifier fields an input document has non-zero
MaxNonZero == 1

----------------------------------------------------------------------------
(* The shape of SheetSettingsData. *)

\* a nil pointer; the objects are numbered from 1
NULL == 0
FREE == "free"
Refs == 1..NumRefs

\* the Entity field: no entity (the global settings), or the entity of a sheet
NoEntity == "none"
TheEntity == "entity"

SubDocFields == {"Page", "BlockLayout", "Attributes", "BodyType"}

EnumFields ==
    {"DamageProgression", "DefaultLengthUnits", "DefaultWeightUnits",
     "UserDescriptionDisplay", "ModifiersDisplay", "NotesDisplay",
     "SkillLevelAdjDisplay"}

\* the toggles of the options section
OptionFields ==
    {"UseMultiplicativeModifiers", "UseModifyingDicePlusAdds", "UseHalfStatDefaults",
     "ShowTraitModifierAdj", "ShowEquipmentModifierAdj", "ShowAllWeapons",
     "ShowSpellAdj", "HideSourceMismatch", "HideTLColumn", "HideLCColumn",
     "HidePageRefColumn", "UseTitleInFooter", "ExcludeUnspentPointsFromTotal",
     "ShowLiftingSTDamage", "ShowIQBasedDamage"}

DodgeBoolFields ==
    {"UseBasicMoveForDodge", "IncludeDodgeFlatBonus", "IncludePDArmor",
     "IncludePDShields", "UsePassiveDefense", "ShowPDColumn"}

BoolFields == OptionFields \cup {"UseSkillModifierAdjustments"} \cup DodgeBoolFields

OverrideFields ==
    {"EasySkillModifierOverride", "AverageSkillModifierOverride",
     "HardSkillModifierOverride", "VeryHardSkillModifierOverride"}

AdjustmentFields ==
    {"EasySkillModifierAdjustment", "AverageSkillModifierAdjustment",
     "HardSkillModifierAdjustment", "VeryHardSkillModifierAdjustment"}

SkillModifierFields == OverrideFields \cup AdjustmentFields

FxpFields == SkillModifierFields \cup {"DodgeOverride"}

DataFields == SubDocFields \cup EnumFields \cup BoolFields \cup FxpFields

\* SheetSettings: the data plus the owning entity
SheetFields == DataFields \cup {"Entity"}


----------------------------------------------------------------------------
(* The enumerations (progression.Option, fxp.LengthUnit, fxp.WeightUnit,   *)
(* display.Option).  Each is a closed set of options with a lowest member, *)
(* the Go zero value; an in-memory value outside the set is OUT_OF_RANGE.  *)

OUT_OF_RANGE == "out_of_range"

ProgressionOptions == {"BasicSet", "KnowingYourOwnStrength"}
LengthUnits == {"FeetAndInches", "Inch", "Meter"}
WeightUnits == {"Pound", "Ounce", "Kilogram"}
DisplayOptions == {"NotShown", "Inline", "Tooltip", "InlineAndTooltip"}

Options(f) ==
    CASE f = "DamageProgression" -> ProgressionOptions
      [] f = "DefaultLengthUnits" -> LengthUnits
      [] f = "DefaultWeightUnits" -> WeightUnits
      [] OTHER -> DisplayOptions

LowestOption(f) ==
    CASE f = "DamageProgression" -> "BasicSet"
      [] f = "DefaultLengthUnits" -> "FeetAndInches"
      [] f = "DefaultWeightUnits" -> "Pound"
      [] OTHER -> "NotShown"

\* Option.EnsureValid: a member is kept, anything else becomes the lowest member
EnumEnsureValid(f, v) == IF v \in Options(f) THEN v ELSE LowestOption(f)

----------------------------------------------------------------------------
(* Sub-document objects.  The content of a PageSettings, BlockLayout,      *)
(* AttributeDefs or Body is one of a few tokens: the factory content, a    *)
(* valid content other than the factory one, or an invalid content.        *)

FACTORY == "factory"
CUSTOM == "custom"
EDITED == "edited"
INVALID == "invalid"
Contents == {FACTORY, CUSTOM, EDITED, INVALID}

EmptyHeap == [r \in Refs |-> FREE]

\* the place of each pointer in the order the code allocates them
Slot(f) ==
    CASE f = "Page" -> 1 [] f = "BlockLayout" -> 2 [] f = "Attributes" -> 3
      [] f = "BodyType" -> 4 [] OTHER -> 5

FreeRefs(h) == {r \in Refs : h[r] = FREE}

\* the n-th object not in use
NthFree(h, n) ==
    CHOOSE r \in FreeRefs(h) : Cardinality({q \in FreeRefs(h) : q < r}) = n - 1

\* Go allocations, one for each pointer p with want[p] # "nil", in the order
\* of Slot: each gets an object no live pointer refers to, holding want[p]
Alloc(h, want) ==
    LET rank(f) == Cardinality({g \in DOMAIN want : Slot(g) <= Slot(f) /\ want[g] # "nil"})
        ref == [f \in DOMAIN want |->
                    IF want[f] = "nil" THEN NULL ELSE NthFree(h, rank(f))]
    IN  [ref |-> ref,
         heap |-> [r \in Refs |->
                    IF \E f \in DOMAIN want : ref[f] = r
                    THEN want[CHOOSE f \in DOMAIN want : ref[f] = r]
                    ELSE h[r]]]

\* the content of NewPageSettings(), NewBlockLayout(), FactoryAttributeDefs(),
\* FactoryBody()
NewPageSettings == FACTORY
NewBlockLayout == FACTORY
FactoryAttributeDefs == FACTORY
FactoryBody == FACTORY

FactoryContent(f) ==
    CASE f = "Page" -> NewPageSettings
      [] f = "BlockLayout" -> NewBlockLayout
      [] f = "Attributes" -> FactoryAttributeDefs
      [] OTHER -> FactoryBody

\* PageSettings.EnsureValidity, BlockLayout.EnsureValidity: repair in place
SubDocEnsureValidity(h, r) ==
    [h EXCEPT ![r] = IF @ = INVALID THEN FACTORY ELSE @]

\* PageSettings.Clone, BlockLayout.Clone, AttributeDefs.Clone, Body.Clone:
\* the content a new object is given
SubDocClone(h, r) == h[r]

\* the objects a document refers to
SubDocRefs(s) == {s[f] : f \in SubDocFields} \ {NULL}

\* the garbage collector: objects no document in `roots` refers to are gone
Collect(h, roots) ==
    [r \in Refs |-> IF \E s \in roots : r \in SubDocRefs(s) THEN h[r] ELSE FREE]

\* a document with each sub-document pointer replaced by what it points to
View(s, h) ==
    [f \in SheetFields |->
        IF f \in SubDocFields
        THEN (IF s[f] = NULL THEN "nil" ELSE h[s[f]])
        ELSE s[f]]

----------------------------------------------------------------------------
(* FactorySheetSettings *)

\* the Go zero value of SheetSettings
ZeroSheet ==
    [f \in SheetFields |->
        CASE f \in SubDocFields -> NULL
          [] f \in EnumFields -> LowestOption(f)
          [] f \in BoolFields -> FALSE
          [] f \in FxpFields -> 0
          [] OTHER -> NoEntity]

\* the factory values with the flat dodge bonus left at its zero value
FactoryScalars_NoFlatBonus ==
    [ZeroSheet EXCEPT
        !.DamageProgression = "BasicSet",
        !.DefaultLengthUnits = "FeetAndInches",
        !.DefaultWeightUnits = "Pound",
        !.UserDescriptionDisplay = "Tooltip",
        !.ModifiersDisplay = "Inline",
        !.NotesDisplay = "Inline",
        !.SkillLevelAdjDisplay = "Tooltip",
        !.ShowSpellAdj = TRUE]

\* lines 99-112
FactoryScalars ==
    [ZeroSheet EXCEPT
        !.DamageProgression = "BasicSet",
        !.DefaultLengthUnits = "FeetAndInches",
        !.DefaultWeightUnits = "Pound",
        !.UserDescriptionDisplay = "Tooltip",
        !.ModifiersDisplay = "Inline",
        !.NotesDisplay = "Inline",
        !.SkillLevelAdjDisplay = "Tooltip",
        !.ShowSpellAdj = TRUE,
        !.UseBasicMoveForDodge = FALSE,
        !.IncludeDodgeFlatBonus = TRUE,
        !.IncludePDArmor = FALSE,
        !.IncludePDShields = FALSE,
        !.UsePassiveDefense = FALSE]

FactorySheetSettings(h) ==
    LET a == Alloc(h, [f \in SubDocFields |-> FactoryContent(f)])
    IN  [s |-> [f \in SheetFields |->
                    IF f \in SubDocFields THEN a.ref[f] ELSE FactoryScalars[f]],
         h |-> a.heap]

----------------------------------------------------------------------------
(* SheetSettings.EnsureValidity, step by step in the order of the code.    *)

\* EnsureSubDocuments with a zero-valued PageSettings installed for a nil Page,
\* in place of NewPageSettings()
EnsureSubDocuments_ZeroPage(s, h) ==
    LET a == Alloc(h, [f \in SubDocFields |->
                        IF s[f] # NULL THEN "nil"
                        ELSE IF f = "Page" THEN INVALID ELSE FactoryContent(f)])
        checked == {s.Page, s.BlockLayout} \ {NULL}
    IN  [s |-> [f \in SheetFields |->
                    IF f \in SubDocFields /\ s[f] = NULL THEN a.ref[f] ELSE s[f]],
         h |-> [r \in Refs |->
                    IF r \in checked THEN SubDocEnsureValidity(a.heap, r)[r]
                    ELSE a.heap[r]]]

\* every sub-document replaced by a new factory one, those that are there too
EnsureSubDocuments_AllReplaced(s, h) ==
    LET a == Alloc(h, [f \in SubDocFields |-> FactoryContent(f)])
    IN  [s |-> [f \in SheetFields |-> IF f \in SubDocFields THEN a.ref[f] ELSE s[f]],
         h |-> a.heap]

\* lines 139-154: a nil sub-document becomes the factory one; a Page or a
\* BlockLayout that is there is told to validate itself
EnsureSubDocuments(s, h) ==
    LET a == Alloc(h, [f \in SubDocFields |->
                        IF s[f] = NULL THEN FactoryContent(f) ELSE "nil"])
        checked == {s.Page, s.BlockLayout} \ {NULL}
    IN  [s |-> [f \in SheetFields |->
                    IF f \in SubDocFields /\ s[f] = NULL THEN a.ref[f] ELSE s[f]],
         h |-> [r \in Refs |->
                    IF r \in checked THEN SubDocEnsureValidity(a.heap, r)[r]
                    ELSE a.heap[r]]]

\* lines 155-161: the seven enumerated fields
EnsureEnums(s) ==
    [f \in SheetFields |-> IF f \in EnumFields THEN EnumEnsureValid(f, s[f]) ELSE s[f]]

dodgeFieldsAtDefaults(s) == ~s.IncludeDodgeFlatBonus /\ ~s.UseBasicMoveForDodge

skillModifierFieldsAtDefaults(s) ==
    /\ ~s.UseSkillModifierAdjustments
    /\ s.EasySkillModifierOverride = 0 /\ s.AverageSkillModifierOverride = 0
    /\ s.HardSkillModifierOverride = 0 /\ s.VeryHardSkillModifierOverride = 0
    /\ s.EasySkillModifierAdjustment = 0 /\ s.AverageSkillModifierAdjustment = 0
    /\ s.HardSkillModifierAdjustment = 0 /\ s.VeryHardSkillModifierAdjustment = 0

\* the heuristic left out
LegacyDodgeHeuristic_Missing(s) == s

\* the heuristic looking at the dodge fields alone
LegacyDodgeHeuristic_DodgeOnly(s) ==
    IF dodgeFieldsAtDefaults(s)
    THEN [s EXCEPT !.IncludeDodgeFlatBonus = TRUE]
    ELSE s

\* the heuristic writing every dodge field back to its GURPS 4E default
LegacyDodgeHeuristic_ResetAll(s) ==
    IF dodgeFieldsAtDefaults(s) /\ skillModifierFieldsAtDefaults(s)
    THEN [s EXCEPT !.IncludeDodgeFlatBonus = TRUE,
                   !.IncludePDArmor = FALSE,
                   !.IncludePDShields = FALSE,
                   !.UsePassiveDefense = FALSE,
                   !.DodgeOverride = 0]
    ELSE s

\* lines 171-181: the legacy heuristic
LegacyDodgeHeuristic(s) ==
    IF dodgeFieldsAtDefaults(s) /\ skillModifierFieldsAtDefaults(s)
    THEN [s EXCEPT !.IncludeDodgeFlatBonus = TRUE]
    ELSE s

\* the assignment of line 183 written the other way round
SyncShowPDColumn_Reversed(s) == [s EXCEPT !.UsePassiveDefense = s.ShowPDColumn]

\* line 183
SyncShowPDColumn(s) == [s EXCEPT !.ShowPDColumn = s.UsePassiveDefense]

EnsureValidity(s, h) ==
    LET sub == EnsureSubDocuments(s, h)
    IN  [s |-> SyncShowPDColumn(LegacyDodgeHeuristic(EnsureEnums(sub.s))),
         h |-> sub.h]

----------------------------------------------------------------------------
(* The serialized form.  A JSON object is the set of keys it holds and the *)
(* value of each; a key is named by the Go field its tag belongs to, the   *)
(* tags of lines 33-74 being distinct.  The deprecated keys keep their     *)
(* JSON names.                                                             *)

DeprecatedKeys == {"hit_locations", "show_advantage_modifier_adj"}

RawKeys == DataFields \cup DeprecatedKeys

\* what a decoder leaves in a field whose key is absent
RawZero(k) ==
    CASE k \in SubDocFields \/ k = "hit_locations" -> "nil"
      [] k \in EnumFields -> LowestOption(k)
      [] k \in FxpFields -> 0
      [] OTHER -> FALSE

EmptyObject == [keys |-> {}, val |-> [k \in RawKeys |-> RawZero(k)]]

\* omitzero: the pointers, the toggles and the numbers carry it, the
\* enumerated fields do not
OmitZero(f) == f \notin EnumFields

IsZero(f, v) ==
    CASE f \in SubDocFields -> v = NULL
      [] f \in BoolFields -> v = FALSE
      [] f \in FxpFields -> v = 0
      [] OTHER -> FALSE

\* SheetSettings.MarshalJSONTo: the SheetSettingsData alone, Entity left out
MarshalJSONTo(s, h) ==
    [keys |-> {f \in DataFields : ~(OmitZero(f) /\ IsZero(f, s[f]))},
     val |-> [k \in RawKeys |->
                CASE k \in SubDocFields -> IF s[k] = NULL THEN "nil" ELSE h[s[k]]
                  [] k \in DataFields -> s[k]
                  [] OTHER -> RawZero(k)]]

\* the text of an enumerated field read back: an unknown text is the lowest option
DecodeEnum(f, v) == IF v \in Options(f) THEN v ELSE LowestOption(f)

\* json.UnmarshalDecode(dec, &content): the fields of SheetSettingsData and
\* the two deprecated ones, each zero when its key is absent
DecodeContent(raw, h) ==
    LET a == Alloc(h, [k \in SubDocFields \cup {"hit_locations"} |->
                        IF k \in raw.keys THEN raw.val[k] ELSE "nil"])
    IN  [data |-> [f \in DataFields |->
                    CASE f \in SubDocFields -> a.ref[f]
                      [] f \in EnumFields ->
                            IF f \in raw.keys THEN DecodeEnum(f, raw.val[f]) ELSE LowestOption(f)
                      [] OTHER -> IF f \in raw.keys THEN raw.val[f] ELSE RawZero(f)],
         OldBodyType |-> a.ref["hit_locations"],
         OldShowTraitModifierAdj |->
            "show_advantage_modifier_adj" \in raw.keys
                /\ raw.val["show_advantage_modifier_adj"],
         h |-> a.heap]

\* the deprecated body type taken whenever it is there, over the current one
Migrate_DeprecatedBodyFirst(s, content) ==
    [f \in SheetFields |->
        CASE f = "BodyType" ->
                IF content.OldBodyType # NULL
                THEN content.OldBodyType ELSE content.data.BodyType
          [] f = "ShowTraitModifierAdj" ->
                IF ~content.data.ShowTraitModifierAdj /\ content.OldShowTraitModifierAdj
                THEN TRUE ELSE content.data.ShowTraitModifierAdj
          [] f \in DataFields -> content.data[f]
          [] OTHER -> s[f]]

\* the deprecated flag assigned to the current one whenever its key is there
Migrate_FlagAssigned(s, content) ==
    [f \in SheetFields |->
        CASE f = "BodyType" ->
                IF content.data.BodyType = NULL /\ content.OldBodyType # NULL
                THEN content.OldBodyType ELSE content.data.BodyType
          [] f = "ShowTraitModifierAdj" ->
                IF content.OldShowTraitModifierAdj # content.data.ShowTraitModifierAdj
                THEN content.OldShowTraitModifierAdj
                ELSE content.data.ShowTraitModifierAdj
          [] f \in DataFields -> content.data[f]
          [] OTHER -> s[f]]

\* lines 201-207: the data taken over (Entity kept), then the deprecated
\* body type and the deprecated trait-modifier flag
Migrate(s, content) ==
    [f \in SheetFields |->
        CASE f = "BodyType" ->
                IF content.data.BodyType = NULL /\ content.OldBodyType # NULL
                THEN content.OldBodyType ELSE content.data.BodyType
          [] f = "ShowTraitModifierAdj" ->
                IF ~content.data.ShowTraitModifierAdj /\ content.OldShowTraitModifierAdj
                THEN TRUE ELSE content.data.ShowTraitModifierAdj
          [] f \in DataFields -> content.data[f]
          [] OTHER -> s[f]]

\* SheetSettings.UnmarshalJSONFrom on receiver s
UnmarshalJSONFrom(s, raw, h) ==
    LET content == DecodeContent(raw, h)
    IN  EnsureValidity(Migrate(s, content), content.h)

\* the error value nil, and the errors jio.Load gives
NoError == "nil"
ReadError == "the file cannot be read"
ParseError == "the file cannot be parsed"

\* a file that is not there, and one whose bytes are no JSON object of the
\* expected shape (not JSON at all, or a member of the wrong JSON type)
NoFile == [present |-> FALSE]
MalformedFile ==
    [present |-> TRUE, parses |-> FALSE, top |-> EmptyObject,
     wrapper |-> FALSE, wrapped |-> EmptyObject]

\* the err of jio.Load: the file is opened, then its bytes are decoded
LoadError(file) ==
    IF ~file.present THEN ReadError
    ELSE IF ~file.parses THEN ParseError
    ELSE NoError

\* a nil *SheetSettings
NilSheet == [isNil |-> TRUE]

\* a result (*SheetSettings, error), with the objects allocated on the way
Returned(r, e) == [s |-> r.s, h |-> r.h, err |-> e]

\* jio.Load(fileSystem, filePath, &data), data being
\*     struct { SheetSettings; OldLocation *SheetSettings `json:"sheet_settings"` }.
\* SheetSettings is embedded by value, so the method set of *data holds the
\* promoted (*SheetSettings).UnmarshalJSONFrom: data is itself a
\* json.UnmarshalerFrom, and the decoder hands it the whole top-level object
\* instead of decoding data field by field.  The object goes to
\* data.SheetSettings, where the key sheet_settings is an unknown member and
\* is skipped; OldLocation is never written and stays nil.
LoadData(file, h) ==
    LET top == UnmarshalJSONFrom(ZeroSheet, file.top, h)
    IN  [SheetSettings |-> top.s,
         OldLocation |-> [isNil |-> TRUE, s |-> ZeroSheet],
         h |-> top.h]

\* the error of jio.Load dropped: a file that cannot be read or parsed gives
\* the validated zero document and no error
NewSheetSettingsFromFile_ErrorDropped(file, h) ==
    IF LoadError(file) # NoError
    THEN Returned(EnsureValidity(ZeroSheet, h), NoError)
    ELSE LET data == LoadData(file, h)
         IN  Returned(EnsureValidity(data.SheetSettings, data.h), NoError)

\* NewSheetSettingsFromFile (lines 118-135)
NewSheetSettingsFromFile(file, h) ==
    IF LoadError(file) # NoError
    THEN Returned([s |-> NilSheet, h |-> h], LoadError(file))
    ELSE LET data == LoadData(file, h)
             s == IF ~data.OldLocation.isNil THEN data.OldLocation.s
                  ELSE data.SheetSettings
         IN  Returned(EnsureValidity(s, data.h), NoError)

----------------------------------------------------------------------------
(* SheetSettings.Clone and SetOwningEntity.                                *)

\* Clone with the Attributes pointer copied along with the scalars and not
\* replaced by a clone of the object
Clone_SharedAttributes(s, owner, h) ==
    LET a == Alloc(h, [f \in SubDocFields |->
                        IF f = "Attributes" THEN "nil" ELSE SubDocClone(h, s[f])])
    IN  [s |-> [f \in SheetFields |->
                    IF f \in SubDocFields \ {"Attributes"} THEN a.ref[f] ELSE s[f]],
         h |-> a.heap]

\* lines 213-220: clone := *s copies every field, Entity among them; each of
\* the four pointers then gets a new object holding a clone of the old one.
\* The owner goes to Body.Clone alone, the field Entity is not assigned.
Clone(s, owner, h) ==
    LET a == Alloc(h, [f \in SubDocFields |-> SubDocClone(h, s[f])])
    IN  [s |-> [f \in SheetFields |-> IF f \in SubDocFields THEN a.ref[f] ELSE s[f]],
         h |-> a.heap]

\* lines 223-226 (BodyType.Update(entity) changes no content of the body)
SetOwningEntity(s, owner) == [s EXCEPT !.Entity = owner]

----------------------------------------------------------------------------
(* Input documents: what a caller can hand to an operation.  Three         *)
(* families, each varying one group of fields over a document whose other  *)
(* fields are the zero values or the factory values.                       *)

FxpValues == {-1000, 0, 5}

\* a hand-crafted document: every enumerated field out of range, the PD column
\* shown without passive defense
BrokenScalars ==
    [f \in SheetFields |->
        CASE f \in EnumFields -> OUT_OF_RANGE
          [] f = "ShowPDColumn" -> TRUE
          [] OTHER -> ZeroSheet[f]]

BaseScalars == {ZeroSheet, FactoryScalars, BrokenScalars}

\* the sub-documents: each nil, or an object of any content
SubDocChoices == [SubDocFields -> {"nil"} \cup Contents]

RefOf(f) == Slot(f)

FieldOfRef(r) ==
    CASE r = 1 -> "Page" [] r = 2 -> "BlockLayout" [] r = 3 -> "Attributes" [] OTHER -> "BodyType"

WithSubDocs(s, c) ==
    [f \in SheetFields |->
        IF f \in SubDocFields THEN (IF c[f] = "nil" THEN NULL ELSE RefOf(f)) ELSE s[f]]

HeapOf(c) ==
    [r \in Refs |->
        IF r \in {RefOf(f) : f \in SubDocFields} /\ c[FieldOfRef(r)] # "nil"
        THEN c[FieldOfRef(r)] ELSE FREE]

AllFactory == [f \in SubDocFields |-> FACTORY]

\* the enumerated fields: each a member of its enumeration or out of range
EnumChoices ==
    [EnumFields -> {"lowest", "other", OUT_OF_RANGE}]

EnumValue(f, c) ==
    CASE c = "lowest" -> LowestOption(f)
      [] c = "other" -> FactoryScalars[f]
      [] OTHER -> OUT_OF_RANGE

WithEnums(s, c) ==
    [f \in SheetFields |-> IF f \in EnumFields THEN EnumValue(f, c[f]) ELSE s[f]]

\* the dodge and skill-modifier fields
SkillChoices ==
    LET few == {T \in SUBSET SkillModifierFields : Cardinality(T) <= MaxNonZero}
        given == UNION {[T -> FxpValues \ {0}] : T \in few}
    IN  {[f \in SkillModifierFields |-> IF f \in DOMAIN a THEN a[f] ELSE 0] : a \in given}

DodgeChoices ==
    [DodgeBoolFields \cup {"UseSkillModifierAdjustments"} -> BOOLEAN]

WithDodge(s, skill, dodge, override) ==
    [f \in SheetFields |->
        CASE f \in SkillModifierFields -> skill[f]
          [] f \in DOMAIN dodge -> dodge[f]
          [] f = "DodgeOverride" -> override
          [] OTHER -> s[f]]

Snapshot(s, h) == [s |-> s, h |-> h]

----------------------------------------------------------------------------
(* SpecValidity: EnsureValidity applied to an input document, and applied  *)
(* again to its result.                                                    *)

InitSubDocs ==
    \E b \in BaseScalars, c \in SubDocChoices :
        /\ sheet = WithSubDocs(b, c)
        /\ heap = HeapOf(c)

InitEnums ==
    \E b \in BaseScalars, c \in EnumChoices :
        /\ sheet = WithEnums(WithSubDocs(b, AllFactory), c)
        /\ heap = HeapOf(AllFactory)

InitDodge ==
    \E skill \in SkillChoices, dodge \in DodgeChoices, override \in {0, 5} :
        /\ sheet = WithDodge(WithSubDocs(FactoryScalars, AllFactory), skill, dodge, override)
        /\ heap = HeapOf(AllFactory)

NoArg == [panel |-> "none"]

\* no application around the operation under study
NoApp ==
    /\ global = ZeroSheet
    /\ entity = ZeroSheet
    /\ panels = <<>>
    /\ calls = <<>>
    /\ arg = NoArg
    /\ steps = 0
    /\ err = NoError
    /\ dockables = <<>>

InitValidity ==
    /\ InitSubDocs \/ InitEnums \/ InitDodge
    /\ NoApp
    /\ input = Snapshot(sheet, heap)
    /\ disk = NoFile
    /\ stage = "input"

\* s.EnsureValidity() on the input document
Validate ==
    /\ stage = "input"
    /\ LET r == EnsureValidity(sheet, heap)
       IN  /\ sheet' = r.s
           /\ heap' = r.h
    /\ input' = Snapshot(sheet, heap)
    /\ stage' = "valid"
    /\ UNCHANGED disk
    /\ UNCHANGED <<appVars, err>>

\* s.EnsureValidity() once more, on the validated document
Revalidate ==
    /\ stage = "valid"
    /\ LET r == EnsureValidity(sheet, heap)
       IN  /\ sheet' = r.s
           /\ heap' = r.h
    /\ input' = Snapshot(sheet, heap)
    /\ stage' = "revalid"
    /\ UNCHANGED disk
    /\ UNCHANGED <<appVars, err>>

NextValidity == Validate \/ Revalidate

SpecValidity == InitValidity /\ [][NextValidity]_vars

----------------------------------------------------------------------------
(* SpecStore: a document saved and loaded back, and a file of any of the   *)
(* shapes the decoder accepts loaded.                                      *)

\* documents the program holds: the factory document, and documents whose
\* dodge and skill-modifier fields were edited or loaded
ProgramSheets ==
    {FactorySheetSettings(EmptyHeap).s}
    \cup {WithDodge(WithSubDocs(FactoryScalars, AllFactory), skill, dodge, override) :
            skill \in SkillChoices,
            dodge \in {d \in DodgeChoices : d["ShowPDColumn"] = d["UsePassiveDefense"]},
            override \in {0, 5}}

\* objects found in files: none of the keys, the factory document as saved,
\* a file from before the dodge customization, a customized document, and a
\* hand-written object
LegacyObject ==
    LET o == MarshalJSONTo(FactoryScalars, EmptyHeap)
    IN  [o EXCEPT !.keys = (@ \ {"IncludeDodgeFlatBonus"}) \cup {"Page", "Attributes"},
                  !.val["Page"] = CUSTOM,
                  !.val["Attributes"] = CUSTOM,
                  !.val["IncludeDodgeFlatBonus"] = FALSE]

CustomObject ==
    LET o == MarshalJSONTo(FactoryScalars, EmptyHeap)
    IN  [o EXCEPT !.keys = @ \cup {"Page", "BlockLayout", "Attributes", "BodyType",
                                   "UsePassiveDefense", "ShowPDColumn",
                                   "UseSkillModifierAdjustments",
                                   "HardSkillModifierOverride", "HideTLColumn"},
                  !.val["Page"] = CUSTOM,
                  !.val["BlockLayout"] = CUSTOM,
                  !.val["Attributes"] = CUSTOM,
                  !.val["BodyType"] = CUSTOM,
                  !.val["UsePassiveDefense"] = TRUE,
                  !.val["ShowPDColumn"] = TRUE,
                  !.val["UseSkillModifierAdjustments"] = TRUE,
                  !.val["HardSkillModifierOverride"] = 5,
                  !.val["HideTLColumn"] = TRUE,
                  !.val["DefaultLengthUnits"] = "Meter"]

HandWrittenObject ==
    [EmptyObject EXCEPT
        !.keys = {"Page", "BlockLayout", "ShowPDColumn", "NotesDisplay",
                  "IncludeDodgeFlatBonus", "DodgeOverride"},
        !.val["Page"] = INVALID,
        !.val["BlockLayout"] = INVALID,
        !.val["ShowPDColumn"] = TRUE,
        !.val["NotesDisplay"] = "no_such_option",
        !.val["IncludeDodgeFlatBonus"] = FALSE,
        !.val["DodgeOverride"] = 5]

BaseObjects ==
    {EmptyObject, MarshalJSONTo(FactorySheetSettings(EmptyHeap).s, FactorySheetSettings(EmptyHeap).h),
     LegacyObject, CustomObject, HandWrittenObject}

\* an object with the deprecated keys and the current trait-modifier flag set
WithDeprecated(o, hit, adv, cur) ==
    [keys |-> o.keys
                \cup (IF hit # "nil" THEN {"hit_locations"} ELSE {})
                \cup (IF adv # "absent" THEN {"show_advantage_modifier_adj"} ELSE {})
                \cup (IF cur THEN {"ShowTraitModifierAdj"} ELSE {}),
     val |-> [o.val EXCEPT
                !["hit_locations"] = hit,
                !["show_advantage_modifier_adj"] = (adv = "true"),
                !["ShowTraitModifierAdj"] = cur]]

RawObjects ==
    {WithDeprecated(o, hit, adv, cur) :
        o \in BaseObjects, hit \in {"nil", EDITED},
        adv \in {"absent", "true", "false"}, cur \in BOOLEAN}

\* a file: its top-level object, and the object under the wrapper key
\* sheet_settings when the key is there
Files ==
    {[present |-> TRUE, parses |-> TRUE, top |-> top, wrapper |-> w, wrapped |-> IF w THEN o ELSE EmptyObject] :
        top \in RawObjects, w \in BOOLEAN, o \in BaseObjects}

InitStore ==
    /\ \/ /\ stage = "doc"
          /\ \E s \in ProgramSheets, e \in {NoEntity, TheEntity} :
                sheet = [s EXCEPT !.Entity = e]
          /\ heap = HeapOf(AllFactory)
          /\ disk = NoFile
       \/ /\ stage = "file"
          /\ sheet = ZeroSheet
          /\ heap = EmptyHeap
          /\ disk \in Files \cup {NoFile, MalformedFile}
    /\ input = Snapshot(sheet, heap)
    /\ NoApp

\* s.Save(filePath): jio.SaveToFile writes what MarshalJSONTo gives
Save ==
    /\ stage = "doc"
    /\ disk' = [present |-> TRUE, parses |-> TRUE, top |-> MarshalJSONTo(sheet, heap),
                wrapper |-> FALSE, wrapped |-> EmptyObject]
    /\ stage' = "saved"
    /\ UNCHANGED <<heap, input, sheet>>
    /\ UNCHANGED <<appVars, err>>

\* NewSheetSettingsFromFile on the file just saved
LoadSaved ==
    /\ stage = "saved"
    /\ LET r == NewSheetSettingsFromFile(disk, heap)
       IN  /\ sheet' = r.s
           /\ heap' = Collect(r.h, {r.s})
           /\ err' = r.err
    /\ input' = Snapshot(sheet, heap)
    /\ stage' = "reloaded"
    /\ UNCHANGED disk
    /\ UNCHANGED appVars

\* NewSheetSettingsFromFile on a file found on disk
LoadFile ==
    /\ stage = "file"
    /\ LET r == NewSheetSettingsFromFile(disk, heap)
       IN  /\ sheet' = r.s
           /\ heap' = IF r.err = NoError THEN Collect(r.h, {r.s}) ELSE r.h
           /\ err' = r.err
           /\ stage' = IF r.err = NoError THEN "loaded" ELSE "failed"
    /\ input' = Snapshot(sheet, heap)
    /\ UNCHANGED disk
    /\ UNCHANGED appVars

NextStore == Save \/ LoadSaved \/ LoadFile

SpecStore == InitStore /\ [][NextStore]_vars

----------------------------------------------------------------------------
(* SpecClone: the global document cloned for an entity, then a             *)
(* sub-document of either mutated in place or a field of either assigned.  *)

\* how many mutations follow the clone
MaxMutations == 1

\* a document the program holds, other than the factory one
CustomScalars ==
    [FactoryScalars EXCEPT
        !.DefaultLengthUnits = "Meter",
        !.HideTLColumn = TRUE,
        !.UseSkillModifierAdjustments = TRUE,
        !.HardSkillModifierOverride = 5,
        !.UsePassiveDefense = TRUE,
        !.ShowPDColumn = TRUE]

\* a document edited in adjustment mode, an override left from an earlier
\* time in override mode
AdjustedScalars ==
    [FactoryScalars EXCEPT
        !.NotesDisplay = "Tooltip",
        !.ShowAllWeapons = TRUE,
        !.AverageSkillModifierOverride = 5,
        !.EasySkillModifierAdjustment = 100,
        !.UseBasicMoveForDodge = TRUE,
        !.IncludeDodgeFlatBonus = FALSE]

StartScalars == {FactoryScalars, CustomScalars, AdjustedScalars}

Owners == {"global", "entity"}

Other(who) == IF who = "entity" THEN "global" ELSE "entity"

\* both documents as values, for comparison
Views == [global |-> View(global, heap), entity |-> View(entity, heap)]

ScalarFields == SheetFields \ SubDocFields

\* the values a field can be assigned
ValuesOf(f) ==
    CASE f \in EnumFields -> Options(f)
      [] f \in BoolFields -> BOOLEAN
      [] f \in FxpFields -> FxpValues
      [] OTHER -> {NoEntity, TheEntity}

InitClone ==
    /\ \E b \in StartScalars, c \in {FACTORY, CUSTOM} :
        /\ global = WithSubDocs(b, [f \in SubDocFields |-> c])
        /\ heap = HeapOf([f \in SubDocFields |-> c])
    /\ entity = ZeroSheet
    /\ input = Views
    /\ sheet = ZeroSheet
    /\ disk = NoFile
    /\ panels = <<>>
    /\ calls = <<>>
    /\ arg = NoArg
    /\ steps = 0
    /\ err = NoError
    /\ dockables = <<>>
    /\ stage = "doc"

\* entity.SheetSettings = global.Clone(entity)
CloneForEntity ==
    /\ stage = "doc"
    /\ LET r == Clone(global, TheEntity, heap)
       IN  /\ entity' = r.s
           /\ heap' = r.h
    /\ input' = Views
    /\ stage' = "cloned"
    /\ UNCHANGED <<global, sheet, disk, panels, calls, arg, steps, err, dockables>>

\* a field of the sub-document s.f written: the object changes in place
MutateSubDocument(who, f, c) ==
    /\ stage \in {"cloned", "mutated"}
    /\ steps < MaxMutations
    /\ LET s == IF who = "entity" THEN entity ELSE global
       IN  /\ heap[s[f]] # c
           /\ heap' = [heap EXCEPT ![s[f]] = c]
    /\ input' = Views
    /\ arg' = [panel |-> who, field |-> f, value |-> c]
    /\ steps' = steps + 1
    /\ stage' = "mutated"
    /\ UNCHANGED <<global, entity, sheet, disk, panels, calls, err, dockables>>

\* s.f = v for a field that is no pointer
AssignScalar(who, f, v) ==
    /\ stage \in {"cloned", "mutated"}
    /\ steps < MaxMutations
    /\ IF who = "entity"
       THEN /\ entity[f] # v
            /\ entity' = [entity EXCEPT ![f] = v]
            /\ UNCHANGED global
       ELSE /\ global[f] # v
            /\ global' = [global EXCEPT ![f] = v]
            /\ UNCHANGED entity
    /\ input' = Views
    /\ arg' = [panel |-> who, field |-> f, value |-> v]
    /\ steps' = steps + 1
    /\ stage' = "mutated"
    /\ UNCHANGED <<heap, sheet, disk, panels, calls, err, dockables>>

NextClone ==
    \/ CloneForEntity
    \/ \E who \in Owners, f \in SubDocFields, c \in Contents : MutateSubDocument(who, f, c)
    \/ \E who \in Owners, f \in ScalarFields : \E v \in ValuesOf(f) : AssignScalar(who, f, v)

SpecClone == InitClone /\ [][NextClone]_vars

----------------------------------------------------------------------------
(* The resolver of skill difficulty modifiers.  It reads the nine fields   *)
(* of lines 59-67 of sheet_settings.go.                                    *)

Tiers == {"Easy", "Average", "Hard", "VeryHard"}

OverrideField(t) ==
    CASE t = "Easy" -> "EasySkillModifierOverride"
      [] t = "Average" -> "AverageSkillModifierOverride"
      [] t = "Hard" -> "HardSkillModifierOverride"
      [] OTHER -> "VeryHardSkillModifierOverride"

AdjustmentField(t) ==
    CASE t = "Easy" -> "EasySkillModifierAdjustment"
      [] t = "Average" -> "AverageSkillModifierAdjustment"
      [] t = "Hard" -> "HardSkillModifierAdjustment"
      [] OTHER -> "VeryHardSkillModifierAdjustment"

\* the tier a skill-modifier field belongs to
TierOf(f) == CHOOSE t \in Tiers : f \in {OverrideField(t), AdjustmentField(t)}

\* the GURPS default of each tier (the tooltips of the eight fields)
Baseline(t) ==
    CASE t = "Easy" -> 0
      [] t = "Average" -> -1
      [] t = "Hard" -> -2
      [] OTHER -> -3

\* the modifier of tier t from the three values the resolver reads: the mode
\* flag, the override of the tier and the adjustment of the tier
Resolve(useOverrides, override, adjustment, t) ==
    IF useOverrides THEN override ELSE Baseline(t) + adjustment

\* the modifier of a skill of tier t at zero points under document s
EffectiveModifier(s, t) ==
    Resolve(s.UseSkillModifierAdjustments, s[OverrideField(t)], s[AdjustmentField(t)], t)

----------------------------------------------------------------------------
(* Spec: the two settings panels, the one of the global defaults (owner    *)
(* nil) and the one of the open sheet, both showing their document.        *)

\* how many operations of the panels a behaviour holds
MaxSteps == 1

\* the toggles a panel has a check box for (UsePassiveDefense and
\* ShowPDColumn have none)
CheckBoxFields ==
    OptionFields
    \cup {"UseSkillModifierAdjustments"}
    \cup {"UseBasicMoveForDodge", "IncludeDodgeFlatBonus", "IncludePDArmor", "IncludePDShields"}

\* the boxes that show the opposite of their field
Inverted(f) ==
    f \in {"HideSourceMismatch", "HidePageRefColumn", "HideTLColumn", "HideLCColumn"}

\* the box of the flat dodge bonus calling syncSheet(true) as well
FullSync_DodgeBonus(f) ==
    f \in {"HideSourceMismatch", "HidePageRefColumn", "HideTLColumn", "HideLCColumn",
           "ShowAllWeapons", "IncludeDodgeFlatBonus"}

\* the boxes whose handler calls syncSheet(true)
FullSync(f) ==
    f \in {"HideSourceMismatch", "HidePageRefColumn", "HideTLColumn", "HideLCColumn",
           "ShowAllWeapons"}

\* what a decimal field is given: values of the range the field accepts
EditValues == {-1000, 2, 5, 100}

\* contents a field of the panel accepts (its ValidateCallback holds)
ValidContents == {FACTORY, CUSTOM, EDITED}

\* what may be typed in the block layout field: the text of a layout, as
\* String() writes it or spaced otherwise, or something that is no layout
LayoutTexts ==
    [layout : ValidContents, canonical : BOOLEAN]
    \cup {[layout |-> INVALID, canonical |-> FALSE]}

\* gurps.NewBlockLayoutFromString: the layout a text holds and whether it is
\* one
NewBlockLayoutFromString(text) ==
    [layout |-> text.layout, valid |-> text.layout # INVALID]

\* BlockLayout.String: the canonical text of a layout
BlockLayoutString(c) == [layout |-> c, canonical |-> TRUE]

\* the handler applying every valid text, the one shown included
LayoutApplies_AnyValid(last, text) == NewBlockLayoutFromString(text).valid

\* lines 594-597: the text is a layout and its canonical text is not the
\* last one applied
LayoutApplies(last, text) ==
    LET parsed == NewBlockLayoutFromString(text)
    IN  parsed.valid /\ last # BlockLayoutString(parsed.layout)

\* lines 123-128
settings(p) == IF p = "entity" THEN entity ELSE global

\* the entity of the sheet passed on whatever the owner is
OwnerEntity_OwnerIgnored(p) == TheEntity

\* the entity syncSheet passes on: that of the owner, nil without owner
OwnerEntity(p) == IF p = "entity" THEN TheEntity ELSE NoEntity

\* the dockables of the application, and those that implement
\* gurps.SheetSettingsResponder (a settings panel does not)
Dockables == {"sheet", "template", "globalSettings", "entitySettings"}
Responders == {"sheet", "template"}
IsResponder(one) == one \in Responders

\* syncSheet run twice by a handler
syncSheet_Twice(p, full) ==
    LET to == SelectSeq(dockables, IsResponder)
    IN  [i \in 1..(2 * Len(to)) |->
            [to |-> to[((i - 1) % Len(to)) + 1], entity |-> OwnerEntity(p), full |-> full]]

\* lines 776-786: each dockable of AllDockables() that is a responder is sent
\* SheetSettingsUpdated(entity, full), in the order of AllDockables(); the
\* result is the calls made when syncSheet returns
syncSheet(p, full) ==
    LET to == SelectSeq(dockables, IsResponder)
    IN  [i \in 1..Len(to) |-> [to |-> to[i], entity |-> OwnerEntity(p), full |-> full]]

\* the State of each check box as sync() and the constructors set it
BoxesOf(s) == [f \in CheckBoxFields |-> IF Inverted(f) THEN ~s[f] ELSE s[f]]

\* lines 722-774: the widgets of a panel set from document s; the closure
\* variable lastBlockLayout is not among them
sync(w, s) == [w EXCEPT !.boxes = BoxesOf(s)]

\* a decimal field of an adjustment writing the override of its tier
StoreDecimal_IntoOverride(s, f, v) ==
    IF f \in AdjustmentFields THEN [s EXCEPT ![OverrideField(TierOf(f))] = v]
    ELSE [s EXCEPT ![f] = v]

\* a decimal field of an override writing the adjustment of its tier
StoreDecimal_IntoAdjustment(s, f, v) ==
    IF f \in OverrideFields THEN [s EXCEPT ![AdjustmentField(TierOf(f))] = v]
    ELSE [s EXCEPT ![f] = v]

\* the set function of a decimal field: d.settings().f = value
StoreDecimal(s, f, v) == [s EXCEPT ![f] = v]

\* the document of a sheet that differs from the factory one in the state of
\* one check box
ToggledScalars == [FactoryScalars EXCEPT !.IncludePDArmor = TRUE]

\* the settings file on disk when the panels open
StartFiles ==
    {[present |-> TRUE, parses |-> TRUE, top |-> LegacyObject, wrapper |-> FALSE, wrapped |-> EmptyObject]}

Init ==
    /\ \E g \in {FactoryScalars, CustomScalars}, e \in {ToggledScalars, AdjustedScalars} :
        LET a == Alloc(HeapOf(AllFactory), AllFactory)
        IN  /\ global = WithSubDocs(g, AllFactory)
            /\ entity = [f \in SheetFields |->
                            CASE f \in SubDocFields -> a.ref[f]
                              [] f = "Entity" -> TheEntity
                              [] OTHER -> e[f]]
            /\ heap = a.heap
    /\ panels = [p \in Owners |->
                    [boxes |-> BoxesOf(settings(p)),
                     lastBlockLayout |-> BlockLayoutString(heap[settings(p).BlockLayout])]]
    /\ disk \in StartFiles
    /\ calls = <<>>
    /\ arg = NoArg
    /\ steps = 0
    /\ err = NoError
    /\ dockables = <<"sheet", "globalSettings", "entitySettings", "template">>
    /\ stage = "open"
    /\ sheet = ZeroSheet
    /\ input = Views

\* the operation recorded: what ran, on which panel, with what, and the
\* error it returned
Returns(op, p, f, v, e) ==
    /\ steps < MaxSteps
    /\ steps' = steps + 1
    /\ stage' = op
    /\ arg' = [panel |-> p, field |-> f, value |-> v]
    /\ input' = Views
    /\ err' = e
    /\ UNCHANGED <<sheet, dockables>>

\* an operation that returns no error
Ran(op, p, f, v) == Returns(op, p, f, v, NoError)

\* d.settings() is a pointer: the document of panel p becomes s
Written(p, s) ==
    IF p = "entity" THEN entity' = s /\ UNCHANGED global
    ELSE global' = s /\ UNCHANGED entity

\* a click on a check box: the box flips, then its ClickCallback runs
\* (lines 178-252, 268-273, 446-469)
ClickCheckBox(p, f) ==
    LET on == ~panels[p].boxes[f]
        v == IF Inverted(f) THEN ~on ELSE on
    IN  /\ Ran("click", p, f, v)
        /\ panels' = [panels EXCEPT ![p].boxes[f] = on]
        /\ Written(p, [settings(p) EXCEPT ![f] = v])
        /\ calls' = syncSheet(p, FullSync(f))
        /\ UNCHANGED <<heap, disk>>

\* a value entered in one of the eight decimal fields (lines 306-412)
SetDecimalField(p, f, v) ==
    /\ Ran("decimal", p, f, v)
    /\ Written(p, StoreDecimal(settings(p), f, v))
    /\ calls' = syncSheet(p, FALSE)
    /\ UNCHANGED <<heap, disk, panels>>

\* another item chosen in a popup of createSettingPopup (lines 678-693)
SelectPopup(p, f, v) ==
    /\ settings(p)[f] # v
    /\ Ran("popup", p, f, v)
    /\ Written(p, [settings(p) EXCEPT ![f] = v])
    /\ calls' = syncSheet(p, FALSE)
    /\ UNCHANGED <<heap, disk, panels>>

\* a paper size, an orientation or a margin entered: the PageSettings object
\* of the document is written in place (lines 561-568, 612-676)
EditPage(p, c) ==
    /\ Ran("page", p, "Page", c)
    /\ heap' = [heap EXCEPT ![settings(p).Page] = c]
    /\ calls' = syncSheet(p, FALSE)
    /\ UNCHANGED <<global, entity, disk, panels>>

\* the block layout field modified (lines 593-603): a text that is a layout
\* whose canonical text differs from lastBlockLayout gives the document a new
\* BlockLayout, any other text is ignored
EditBlockLayout(p, text) ==
    IF LayoutApplies(panels[p].lastBlockLayout, text)
    THEN LET c == NewBlockLayoutFromString(text).layout
             a == Alloc(heap, [f \in {"BlockLayout"} |-> c])
             s == [settings(p) EXCEPT !.BlockLayout = a.ref["BlockLayout"]]
         IN  /\ Ran("layout", p, "BlockLayout", text)
             /\ panels' = [panels EXCEPT ![p].lastBlockLayout = BlockLayoutString(c)]
             /\ Written(p, s)
             /\ heap' = Collect(a.heap, {s, settings(Other(p))})
             /\ calls' = syncSheet(p, TRUE)
             /\ UNCHANGED disk
    ELSE /\ Ran("ignored", p, "BlockLayout", text)
         /\ calls' = <<>>
         /\ UNCHANGED <<heap, disk, global, entity, panels>>

\* reset giving the sheet the global document itself, not a clone of it
reset_NoClone(p) ==
    /\ Ran("reset", p, "none", "none")
    /\ LET r == IF p = "entity" THEN [s |-> global, h |-> heap]
                ELSE FactorySheetSettings(heap)
       IN  /\ Written(p, r.s)
           /\ heap' = Collect(r.h, {r.s, settings(Other(p))})
           /\ panels' = [panels EXCEPT ![p] = sync(@, r.s)]
    /\ calls' = <<>>
    /\ UNCHANGED disk

\* lines 712-720: the sheet's document becomes a clone of the global one, the
\* global one a new factory document; then sync()
reset(p) ==
    /\ Ran("reset", p, "none", "none")
    /\ LET r == IF p = "entity" THEN Clone(global, TheEntity, heap)
                ELSE FactorySheetSettings(heap)
       IN  /\ Written(p, r.s)
           /\ heap' = Collect(r.h, {r.s, settings(Other(p))})
           /\ panels' = [panels EXCEPT ![p] = sync(@, r.s)]
    /\ calls' = <<>>
    /\ UNCHANGED disk

\* lines 788-802: the file at filePath parsed; on an error the error is
\* returned and nothing else happens, otherwise the document is replaced by
\* what the file gives, then sync()
load(p, file) ==
    /\ Returns("load", p, "none", "none", LoadError(file))
    /\ IF LoadError(file) # NoError
       THEN UNCHANGED <<global, entity, heap, panels>>
       ELSE LET r == NewSheetSettingsFromFile(file, heap)
                s == IF p = "entity" THEN SetOwningEntity(r.s, TheEntity) ELSE r.s
            IN  /\ Written(p, s)
                /\ heap' = Collect(r.h, {s, settings(Other(p))})
                /\ panels' = [panels EXCEPT ![p] = sync(@, s)]
    /\ calls' = <<>>
    /\ UNCHANGED disk

\* lines 804-805
save(p) ==
    /\ Ran("save", p, "none", "none")
    /\ disk' = [present |-> TRUE, parses |-> TRUE, top |-> MarshalJSONTo(settings(p), heap),
                wrapper |-> FALSE, wrapped |-> EmptyObject]
    /\ calls' = <<>>
    /\ UNCHANGED <<heap, global, entity, panels>>

Next ==
    \E p \in Owners :
        \/ \E f \in CheckBoxFields : ClickCheckBox(p, f)
        \/ \E f \in SkillModifierFields, v \in EditValues : SetDecimalField(p, f, v)
        \/ \E f \in EnumFields : \E v \in Options(f) : SelectPopup(p, f, v)
        \/ \E c \in ValidContents : EditPage(p, c)
        \/ \E text \in LayoutTexts : EditBlockLayout(p, text)
        \/ reset(p)
        \/ \E file \in {disk, MalformedFile, NoFile} : load(p, file)
        \/ save(p)

Spec == Init /\ [][Next]_vars

----------------------------------------------------------------------------
(* SpecSequence: sequences of operations of the two panels (an edit of a   *)
(* toggle, of the page, of the block layout; reset, load, save) on a       *)
(* customized global document and an adjusted sheet.                       *)

\* how many operations a sequence holds
MaxSequence == 3

InitSequence ==
    /\ LET a == Alloc(HeapOf(AllFactory), AllFactory)
       IN  /\ global = WithSubDocs(CustomScalars, AllFactory)
           /\ entity = [f \in SheetFields |->
                           CASE f \in SubDocFields -> a.ref[f]
                             [] f = "Entity" -> TheEntity
                             [] OTHER -> AdjustedScalars[f]]
           /\ heap = a.heap
    /\ panels = [p \in Owners |->
                    [boxes |-> BoxesOf(settings(p)),
                     lastBlockLayout |-> BlockLayoutString(heap[settings(p).BlockLayout])]]
    /\ disk \in StartFiles
    /\ calls = <<>>
    /\ arg = NoArg
    /\ steps = MaxSteps - MaxSequence
    /\ err = NoError
    /\ dockables = <<"sheet", "globalSettings", "entitySettings", "template">>
    /\ stage = "open"
    /\ sheet = ZeroSheet
    /\ input = Views

NextSequence ==
    \E p \in Owners :
        \/ ClickCheckBox(p, "HideTLColumn")
        \/ EditPage(p, EDITED)
        \/ EditBlockLayout(p, BlockLayoutString(EDITED))
        \/ reset(p)
        \/ load(p, disk)
        \/ save(p)

SpecSequence == InitSequence /\ [][NextSequence]_vars

----------------------------------------------------------------------------
(* SpecNotify: syncSheet step by step, over every list of open dockables.  *)

\* how many dockables are open at most
MaxDockables == 3

\* the lists of n dockables, none twice
DockableLists(n) ==
    {l \in [1..n -> Dockables] : \A i, j \in 1..n : l[i] = l[j] => i = j}

InitNotify ==
    /\ \E n \in 0..MaxDockables : dockables \in DockableLists(n)
    /\ global = ZeroSheet
    /\ entity = ZeroSheet
    /\ heap = EmptyHeap
    /\ sheet = ZeroSheet
    /\ input = Snapshot(sheet, heap)
    /\ disk = NoFile
    /\ panels = <<>>
    /\ calls = <<>>
    /\ arg = NoArg
    /\ steps = 0
    /\ err = NoError
    /\ stage = "idle"

\* d.syncSheet(full) called on panel p: line 777-780, entity from the owner
EnterSyncSheet(p, full) ==
    /\ stage = "idle"
    /\ stage' = "loop"
    /\ arg' = [panel |-> p, field |-> "none", value |-> full]
    /\ calls' = <<>>
    /\ steps' = 0
    /\ UNCHANGED <<heap, input, sheet, disk, global, entity, panels, err, dockables>>

\* lines 781-785: the next dockable of the range; a responder is called and
\* the call returns before the loop goes on
VisitDockable ==
    /\ stage = "loop"
    /\ steps < Len(dockables)
    /\ LET one == dockables[steps + 1]
       IN  calls' = IF IsResponder(one)
                    THEN Append(calls, [to |-> one, entity |-> OwnerEntity(arg.panel),
                                        full |-> arg.value])
                    ELSE calls
    /\ steps' = steps + 1
    /\ UNCHANGED <<heap, input, sheet, disk, stage, global, entity, panels, arg, err,
                   dockables>>

\* line 786: the range is over, syncSheet returns
LeaveSyncSheet ==
    /\ stage = "loop"
    /\ steps = Len(dockables)
    /\ stage' = "returned"
    /\ UNCHANGED <<heap, input, sheet, disk, global, entity, panels, calls, arg, steps,
                   err, dockables>>

NextNotify ==
    \/ \E p \in Owners, full \in BOOLEAN : EnterSyncSheet(p, full)
    \/ VisitDockable
    \/ LeaveSyncSheet

SpecNotify == InitNotify /\ [][NextNotify]_vars

----------------------------------------------------------------------------
(* Properties of EnsureValidity (SpecValidity).                            *)

Validated == stage \in {"valid", "revalid"}

\* C1: after EnsureValidity, ShowPDColumn equals UsePassiveDefense, and
\* UsePassiveDefense has the value it had on input.
C1_ShowPDColumnFollowsPassiveDefense ==
    Validated =>
        /\ sheet.ShowPDColumn = sheet.UsePassiveDefense
        /\ sheet.UsePassiveDefense = input.s.UsePassiveDefense

\* the PD column was shown on input without passive defense
C1_Witness ==
    /\ stage = "valid"
    /\ input.s.ShowPDColumn /\ ~input.s.UsePassiveDefense
    /\ ~sheet.ShowPDColumn

\* C2: EnsureValidity is idempotent: applied to a validated document it
\* changes no field, no sub-document pointer and no sub-document.
C2_EnsureValidityIdempotent ==
    /\ stage = "valid" => EnsureValidity(sheet, heap) = Snapshot(sheet, heap)
    /\ stage = "revalid" => Snapshot(sheet, heap) = input

\* the first pass had nil sub-documents and out-of-range enums to repair
C2_Witness ==
    /\ stage = "valid"
    /\ \A f \in SubDocFields : input.s[f] = NULL
    /\ \A f \in EnumFields : input.s[f] = OUT_OF_RANGE
    /\ Snapshot(sheet, heap) # input

AllSkillModifiersZero(s) == \A f \in SkillModifierFields : s[f] = 0

\* C3: a document whose IncludeDodgeFlatBonus and UseBasicMoveForDodge are
\* false, whose eight skill-modifier fields are zero and whose
\* UseSkillModifierAdjustments is false has IncludeDodgeFlatBonus true after
\* EnsureValidity (whatever its PD fields and DodgeOverride are).
C3_LegacyDocumentGetsFlatBonus ==
    (/\ Validated
     /\ ~input.s.IncludeDodgeFlatBonus /\ ~input.s.UseBasicMoveForDodge
     /\ ~input.s.UseSkillModifierAdjustments
     /\ AllSkillModifiersZero(input.s))
    => sheet.IncludeDodgeFlatBonus

\* every dodge field and every skill-modifier field of the input at zero
C3_Witness ==
    /\ stage = "valid"
    /\ \A f \in DodgeBoolFields \cup {"UseSkillModifierAdjustments"} : ~input.s[f]
    /\ \A f \in FxpFields : input.s[f] = 0
    /\ sheet.IncludeDodgeFlatBonus

\* C4: with UseSkillModifierAdjustments true, or a skill-modifier field
\* non-zero, or UseBasicMoveForDodge true, EnsureValidity leaves
\* IncludeDodgeFlatBonus as it was.
C4_FlatBonusKeptOtherwise ==
    (/\ Validated
     /\ \/ input.s.UseSkillModifierAdjustments
        \/ ~AllSkillModifiersZero(input.s)
        \/ input.s.UseBasicMoveForDodge)
    => sheet.IncludeDodgeFlatBonus = input.s.IncludeDodgeFlatBonus

\* the override mode alone keeps a false flat bonus false
C4_Witness ==
    /\ stage = "valid"
    /\ input.s.UseSkillModifierAdjustments
    /\ AllSkillModifiersZero(input.s)
    /\ ~input.s.UseBasicMoveForDodge
    /\ ~input.s.IncludeDodgeFlatBonus
    /\ ~sheet.IncludeDodgeFlatBonus

HeuristicFires(s) ==
    /\ ~s.IncludeDodgeFlatBonus /\ ~s.UseBasicMoveForDodge
    /\ ~s.UseSkillModifierAdjustments
    /\ AllSkillModifiersZero(s)

\* C5: when the heuristic fires, the dodge and skill-modifier fields other
\* than IncludeDodgeFlatBonus keep their input values through EnsureValidity,
\* and the heuristic itself changes no field but IncludeDodgeFlatBonus.
C5_HeuristicChangesOnlyFlatBonus ==
    (Validated /\ HeuristicFires(input.s)) =>
        /\ \A f \in {"UseBasicMoveForDodge", "IncludePDArmor", "IncludePDShields",
                     "UsePassiveDefense", "DodgeOverride",
                     "UseSkillModifierAdjustments"} \cup SkillModifierFields :
                sheet[f] = input.s[f]
        /\ \A f \in SheetFields \ {"IncludeDodgeFlatBonus"} :
                LegacyDodgeHeuristic(input.s)[f] = input.s[f]

\* the heuristic fired on a document with PD and a dodge override set
C5_Witness ==
    /\ stage = "valid"
    /\ HeuristicFires(input.s)
    /\ input.s.IncludePDArmor /\ input.s.IncludePDShields
    /\ input.s.UsePassiveDefense /\ input.s.DodgeOverride = 5
    /\ sheet.IncludeDodgeFlatBonus


\* C12: EnsureValidity is defined on every input document, the one with four
\* nil sub-documents included, and afterwards each of the four sub-documents
\* is there; one that was there on input is the same object still, with the
\* content it had if that was valid.
C12_SubDocumentsNonNil ==
    Validated =>
        \A f \in SubDocFields :
            /\ sheet[f] # NULL
            /\ heap[sheet[f]] # FREE
            /\ input.s[f] # NULL =>
                /\ sheet[f] = input.s[f]
                /\ input.h[input.s[f]] # INVALID => heap[sheet[f]] = input.h[input.s[f]]

\* the four sub-documents nil on input, the four factory ones after
C12_Witness ==
    /\ stage = "valid"
    /\ \A f \in SubDocFields : input.s[f] = NULL
    /\ \A f \in SubDocFields : sheet[f] # NULL /\ heap[sheet[f]] = FactoryContent(f)
    /\ Cardinality(SubDocRefs(sheet)) = 4

\* C18: EnsureValidity treats the four sub-documents alike: one that is nil
\* on input is the factory one afterwards, one that is there has been put
\* through its own validity routine, so none of Page, BlockLayout,
\* Attributes and BodyType is invalid afterwards.
C18_AllSubDocumentsValidated ==
    stage = "valid" =>
        \A f \in SubDocFields :
            /\ input.s[f] = NULL => heap[sheet[f]] = FactoryContent(f)
            /\ input.s[f] # NULL =>
                heap[sheet[f]] = SubDocEnsureValidity(input.h, input.s[f])[input.s[f]]

----------------------------------------------------------------------------
(* Properties of saving and loading (SpecStore).                           *)

FactoryView == View(FactorySheetSettings(EmptyHeap).s, FactorySheetSettings(EmptyHeap).h)

\* C6: the factory document saved and loaded back is field for field the
\* factory document.
C6_FactoryRoundTrip ==
    (stage = "reloaded" /\ input = FactorySheetSettings(EmptyHeap))
        => View(sheet, heap) = FactoryView

\* the factory document went through a file that holds no key of a
\* zero-valued toggle or number
C6_Witness ==
    /\ stage = "reloaded"
    /\ input = FactorySheetSettings(EmptyHeap)
    /\ disk.present
    /\ disk.top.keys \cap BoolFields = {"ShowSpellAdj", "IncludeDodgeFlatBonus"}
    /\ disk.top.keys \cap FxpFields = {}
    /\ sheet.IncludeDodgeFlatBonus /\ ~sheet.ShowPDColumn

\* what decoding and validating one object gives, as a view
Migrated(o) ==
    LET r == UnmarshalJSONFrom(ZeroSheet, o, EmptyHeap)
    IN  View(r.s, r.h)

\* C7 as claimed: a loaded file that holds the wrapper key gives the wrapped
\* document, decoded and validated, whatever its top-level keys are; a file
\* without it gives its top-level document.
C7_WrapperSupersedes ==
    stage = "loaded" =>
        View(sheet, heap) = IF disk.wrapper THEN Migrated(disk.wrapped)
                            ELSE Migrated(disk.top)

\* C21: a document of the program whose IncludeDodgeFlatBonus and
\* UseBasicMoveForDodge are both false, saved and loaded back, still has
\* IncludeDodgeFlatBonus false, whatever its skill-modifier fields, PD toggles
\* and DodgeOverride are.
C21_ExplicitFalseSurvives ==
    (/\ stage = "reloaded"
     /\ err = NoError
     /\ ~input.s.IncludeDodgeFlatBonus
     /\ ~input.s.UseBasicMoveForDodge)
        => ~sheet.IncludeDodgeFlatBonus

----------------------------------------------------------------------------
(* Properties of loading a file (SpecStore).                               *)

\* every invariant of a valid document: the sub-documents there and valid,
\* the enumerated fields in range, the PD column following passive defense
IsValid(s, h) ==
    /\ \A f \in SubDocFields : s[f] # NULL /\ h[s[f]] \in Contents \ {INVALID}
    /\ \A f \in EnumFields : s[f] \in Options(f)
    /\ s.ShowPDColumn = s.UsePassiveDefense

\* the file a document is written to
FileOf(s, h) ==
    [present |-> TRUE, parses |-> TRUE, top |-> MarshalJSONTo(s, h),
     wrapper |-> FALSE, wrapped |-> EmptyObject]

\* C11: NewSheetSettingsFromFile returns an error and a nil document exactly
\* when the file cannot be read or cannot be parsed; a file that parses gives
\* a document and no error whatever its content, and what is returned is
\* what loading the clean file of that document returns.
C11_ErrorOnlyWhenUnreadable ==
    stage \in {"loaded", "failed"} =>
        /\ (err # NoError) <=> (~disk.present \/ ~disk.parses)
        /\ (err # NoError) <=> (sheet = NilSheet)
        /\ (err # NoError) <=> (stage = "failed")
        /\ err = NoError =>
            LET again == NewSheetSettingsFromFile(FileOf(sheet, heap), heap)
            IN  /\ IsValid(sheet, heap)
                /\ again.err = err
                /\ View(again.s, again.h) = View(sheet, heap)

\* a hand-written file with invalid sub-documents, an unknown option and the
\* PD column shown without passive defense loaded: a document, no error
C11_Witness ==
    /\ stage = "loaded"
    /\ disk.top.val["Page"] = INVALID
    /\ disk.top.val["NotesDisplay"] \notin DisplayOptions
    /\ disk.top.val["ShowPDColumn"] /\ "UsePassiveDefense" \notin disk.top.keys
    /\ "Attributes" \notin disk.top.keys
    /\ err = NoError
    /\ sheet # NilSheet
    /\ MarshalJSONTo(sheet, heap) # disk.top

\* the body a file gives under key k, "nil" when the key is not there
BodyUnder(o, k) == IF k \in o.keys THEN o.val[k] ELSE "nil"

\* C13: the BodyType of a decoded document is the body under body_type when
\* there is one; else the body under the deprecated hit_locations when there
\* is one; else the factory body.
C13_DeprecatedBodyType ==
    stage = "loaded" =>
        heap[sheet.BodyType] =
            IF BodyUnder(disk.top, "BodyType") # "nil" THEN BodyUnder(disk.top, "BodyType")
            ELSE IF BodyUnder(disk.top, "hit_locations") # "nil"
                 THEN BodyUnder(disk.top, "hit_locations")
                 ELSE FactoryBody

\* a file with a body under hit_locations alone
C13_Witness ==
    /\ stage = "loaded"
    /\ "BodyType" \notin disk.top.keys
    /\ BodyUnder(disk.top, "hit_locations") = EDITED
    /\ heap[sheet.BodyType] = EDITED

\* the flag a file gives under key k, false when the key is not there
FlagUnder(o, k) == k \in o.keys /\ o.val[k]

\* C14: the ShowTraitModifierAdj of a decoded document is the flag under its
\* current key or the flag under the deprecated show_advantage_modifier_adj.
C14_DeprecatedTraitModifierFlag ==
    stage = "loaded" =>
        sheet.ShowTraitModifierAdj =
            (FlagUnder(disk.top, "ShowTraitModifierAdj")
                \/ FlagUnder(disk.top, "show_advantage_modifier_adj"))

\* the deprecated flag true, the current one not there
C14_Witness ==
    /\ stage = "loaded"
    /\ "ShowTraitModifierAdj" \notin disk.top.keys
    /\ FlagUnder(disk.top, "show_advantage_modifier_adj")
    /\ sheet.ShowTraitModifierAdj

----------------------------------------------------------------------------
(* Properties of the skill difficulty modifiers (Spec).                    *)

\* values of the range the decimal fields accept, its two ends among them
RangeSample == {-1000, -1, 0, 2, 100, 1000}

\* the last operation entered a value in a decimal field of the set F
Entered(F) == stage = "decimal" /\ arg.field \in F

\* C8: in adjustment mode (UseSkillModifierAdjustments false) the modifier of
\* every tier is its baseline (0, -1, -2, -3) plus the adjustment of the tier,
\* for every adjustment of the range and whatever the override of the tier
\* is (the resolver reads no other override); an adjustment entered in the
\* panel is the one that counts.
C8_AdjustmentMode ==
    /\ \A p \in Owners :
        ~settings(p).UseSkillModifierAdjustments =>
            \A t \in Tiers :
                /\ EffectiveModifier(settings(p), t)
                        = Baseline(t) + settings(p)[AdjustmentField(t)]
                /\ \A a \in RangeSample, o \in RangeSample :
                        Resolve(settings(p).UseSkillModifierAdjustments, o, a, t)
                            = Baseline(t) + a
    /\ (Entered(AdjustmentFields) /\ ~settings(arg.panel).UseSkillModifierAdjustments) =>
            EffectiveModifier(settings(arg.panel), TierOf(arg.field))
                = Baseline(TierOf(arg.field)) + arg.value

\* an Average adjustment of 2 entered, the Average override being 5: the
\* modifier is 1
C8_Witness ==
    /\ Entered({"AverageSkillModifierAdjustment"})
    /\ arg.value = 2
    /\ ~settings(arg.panel).UseSkillModifierAdjustments
    /\ settings(arg.panel).AverageSkillModifierOverride = 5
    /\ EffectiveModifier(settings(arg.panel), "Average") = 1

----------------------------------------------------------------------------
(* Properties of syncSheet (SpecNotify).                                   *)

\* the calls made to dockable one
CallsTo(one) == {i \in DOMAIN calls : calls[i].to = one}

\* the dockables among the first n of AllDockables()
FirstDockables(n) == {dockables[i] : i \in 1..n}

\* C15: when syncSheet returns, every open dockable that implements
\* SheetSettingsResponder has been called exactly once and no other dockable
\* has; while it runs, the dockables passed so far have been; each call holds
\* the flag given, and an entity that is nil exactly when the panel has no
\* owner and the entity of the owner otherwise.
C15_EveryResponderOnce ==
    /\ stage \in {"loop", "returned"} =>
        /\ \A one \in FirstDockables(steps) :
                Cardinality(CallsTo(one)) = IF one \in Responders THEN 1 ELSE 0
        /\ \A i \in DOMAIN calls :
                /\ calls[i].to \in FirstDockables(steps)
                /\ calls[i].full = arg.value
                /\ (calls[i].entity = NoEntity) <=> (arg.panel = "global")
                /\ (calls[i].entity = TheEntity) <=> (arg.panel = "entity")
    /\ stage = "returned" =>
        /\ steps = Len(dockables)
        /\ calls = syncSheet(arg.panel, arg.value)

\* the panel of the global settings notified three open dockables, two of
\* them responders
C15_Witness ==
    /\ stage = "returned"
    /\ arg.panel = "global"
    /\ Len(dockables) = 3
    /\ Len(calls) = 2
    /\ "globalSettings" \in FirstDockables(3)
    /\ \A i \in DOMAIN calls : calls[i].entity = NoEntity

----------------------------------------------------------------------------
(* Properties of the handlers of the panels (Spec).                        *)

\* the handlers that edit a field of the document
EditStages == {"click", "decimal", "popup", "page", "layout"}

\* the fields of the document of panel p that the last operation changed
ChangedFields(p) == {f \in SheetFields : Views[p][f] # input[p][f]}

\* every open responder has been called exactly once and nothing else has
NotifiedOnce ==
    /\ \A one \in FirstDockables(Len(dockables)) :
            Cardinality(CallsTo(one)) = IF one \in Responders THEN 1 ELSE 0
    /\ \A i \in DOMAIN calls : calls[i].to \in FirstDockables(Len(dockables))

\* what a handler stores of the value it is given: the layout of a text, the
\* value itself otherwise
Stored(v) == IF stage = "layout" THEN NewBlockLayoutFromString(v).layout ELSE v

\* C16: a click on a check box, a popup selection, a value entered in one of
\* the eight decimal fields, a valid page edit or an effective block layout
\* edit writes exactly one field of the document settings() gives for the
\* panel of the event (no other field and nothing of the other document
\* changes; the click and the selection always change theirs), and the
\* handler notifies exactly once: one call to each open responder.
C16_OneFieldOneNotification ==
    stage \in EditStages =>
        /\ ChangedFields(arg.panel) \subseteq {arg.field}
        /\ Views[arg.panel][arg.field] = Stored(arg.value)
        /\ stage \in {"click", "popup"} => ChangedFields(arg.panel) = {arg.field}
        /\ ChangedFields(Other(arg.panel)) = {}
        /\ NotifiedOnce

\* a hidden column shown again in the panel of the sheet: the one field
\* differs and both responders have one call
C16_Witness ==
    /\ stage = "click"
    /\ arg.panel = "entity"
    /\ arg.field = "HideTLColumn"
    /\ ChangedFields("entity") = {"HideTLColumn"}
    /\ Len(calls) = 2

\* the fields whose edit changes what the sheet is built of: the block
\* layout, the columns shown and the weapons listed
LayoutFields ==
    {"BlockLayout", "HideSourceMismatch", "HidePageRefColumn", "HideTLColumn",
     "HideLCColumn", "ShowAllWeapons"}

\* the skill modifier values, the dodge toggles, the units, the display
\* modes, the damage progression and the page settings
NonLayoutFields ==
    SkillModifierFields
    \cup {"UseBasicMoveForDodge", "IncludeDodgeFlatBonus", "IncludePDArmor", "IncludePDShields"}
    \cup EnumFields
    \cup {"Page"}

\* C17: the flag of every call an edit makes is true when the edit altered
\* the BlockLayout, true only when the field edited is one the layout of the
\* sheet depends on, and false for the skill modifier values, the dodge
\* toggles, the units, the display modes, the damage progression and the
\* page settings.
C17_StructuralFlag ==
    stage \in EditStages =>
        /\ calls # <<>>
        /\ \A i \in DOMAIN calls :
            /\ "BlockLayout" \in ChangedFields(arg.panel) => calls[i].full
            /\ calls[i].full => arg.field \in LayoutFields
            /\ arg.field \in NonLayoutFields => ~calls[i].full
            /\ arg.field \in (SheetFields \ LayoutFields) => ~calls[i].full

\* a new block layout entered: both responders are told to rebuild
C17_Witness ==
    /\ stage = "layout"
    /\ "BlockLayout" \in ChangedFields(arg.panel)
    /\ Len(calls) = 2
    /\ \A i \in DOMAIN calls : calls[i].full

\* C19: when reset or load has replaced the document of a panel and the
\* content changed, every open responder has been notified by the time the
\* operation returns.
C19_ResetAndLoadNotify ==
    (stage \in {"reset", "load"} /\ err = NoError /\ ChangedFields(arg.panel) # {}) =>
        \A one \in FirstDockables(Len(dockables)) :
            one \in Responders => CallsTo(one) # {}

\* C20: a text in the block layout field that is no layout, or whose layout
\* has the canonical text last applied, leaves the document as it is and
\* notifies nobody; a text whose layout differs from the last one applied
\* gives the document that layout and notifies exactly once, each call with
\* the flag true.
C20_BlockLayoutEdit ==
    [][\A p \in Owners, text \in LayoutTexts :
        (stage' \in {"layout", "ignored"} /\ arg' = [panel |-> p, field |-> "BlockLayout", value |-> text]) =>
            LET parsed == NewBlockLayoutFromString(text)
                same == panels[p].lastBlockLayout = BlockLayoutString(parsed.layout)
            IN  IF ~parsed.valid \/ same
                THEN /\ global' = global /\ entity' = entity
                     /\ heap'[settings(p).BlockLayout] = heap[settings(p).BlockLayout]
                     /\ calls' = <<>>
                ELSE /\ heap'[settings(p)'.BlockLayout] = parsed.layout
                     /\ settings(Other(p))' = settings(Other(p))
                     /\ NotifiedOnce'
                     /\ \A i \in DOMAIN calls' : calls'[i].full
    ]_vars

\* a layout typed in another spelling than String() gives was taken for the
\* one shown and ignored
C20_Witness ==
    /\ stage = "ignored"
    /\ arg.value.layout # INVALID
    /\ ~arg.value.canonical
    /\ calls = <<>>

----------------------------------------------------------------------------
(* Properties of sequences of panel operations (SpecSequence).             *)

\* the sub-document objects of a document
SubDocsOf(s) == {s[f] : f \in SubDocFields}

\* C22: after any sequence of edits, resets and loads on the two panels the
\* global document and the document of the sheet hold their four
\* sub-documents and share none of them, and an edit through one panel has
\* changed nothing of the document of the other.
C22_NoSharedSubDocument ==
    /\ NULL \notin SubDocsOf(global) \cup SubDocsOf(entity)
    /\ SubDocsOf(global) \cap SubDocsOf(entity) = {}
    /\ stage \in EditStages => ChangedFields(Other(arg.panel)) = {}

\* the sheet was reset to a clone of the global document, then the page of
\* the global document was edited: the page of the sheet is as it was cloned
C22_Witness ==
    /\ stage = "page"
    /\ arg.panel = "global"
    /\ entity.DefaultLengthUnits = "Meter"
    /\ heap[entity.Page] = FACTORY
    /\ heap[global.Page] = EDITED

\* C23: after any sequence of loads and resets the document of the sheet
\* has the entity of the sheet as its Entity, and the global document has
\* none.
C23_OwnerAssociation ==
    /\ entity.Entity = TheEntity
    /\ global.Entity = NoEntity

----------------------------------------------------------------------------
(* Properties of Clone (SpecClone).                                        *)

\* C10: after entity = Clone(global), a mutation of a sub-document of one of
\* the two, or an assignment to a scalar field of one, leaves every field of
\* the other as it was, and the two share no sub-document.
C10_CloneIsolation ==
    /\ stage \in {"cloned", "mutated"} => SubDocRefs(global) \cap SubDocRefs(entity) = {}
    /\ stage = "mutated" => Views[Other(arg.panel)] = input[Other(arg.panel)]

\* the Attributes of the clone were mutated, and those of the original differ
C10_Witness ==
    /\ stage = "mutated"
    /\ arg.panel = "entity" /\ arg.field = "Attributes"
    /\ heap[entity.Attributes] = EDITED
    /\ heap[global.Attributes] = CUSTOM
    /\ Views.global = input.global

=============================================================================
